---- MODULE Spec2Model ----
(***************************************************************************)
(* Telegram webhook service: the ingestion endpoint (main.py), the webhook *)
(* processor and the rate limiter (webhook_handler.py), the update models  *)
(* (models.py) and the responder (ai_agent.py).                            *)
(*                                                                         *)
(* The service runs on one asyncio event loop: a request handler runs      *)
(* without interruption between two awaits.  The awaits of the ingestion   *)
(* endpoint are request.body() (main.py:108) and asyncio.sleep inside the  *)
(* responder (ai_agent.py:34); each action below is one such uninterrupted *)
(* run of the handler.                                                     *)
(***************************************************************************)
EXTENDS Integers, Sequences, FiniteSets, TLC

-----------------------------------------------------------------------------
(* Bounds of the model *)

\* the clock runs over 0..MaxTime
MaxTime == 3
\* number of requests that arrive in a behaviour of the pipeline
MaxRequests == 3
\* number of requests that arrive in a behaviour of the rate limiter
MaxCalls == 4
\* number of requests that arrive in a behaviour over the update contents
MaxUpdates == 1
\* number of requests in flight at the same time
MaxInFlight == 2
\* config.RATE_LIMIT and config.RATE_LIMIT_WINDOW, read from the environment
\* (defaults 100 and 60), scaled to the clock of the model
RATE_LIMIT == 2
RATE_LIMIT_WINDOW == 2

-----------------------------------------------------------------------------
(* Values *)

\* Optional[T]: <<>> is None, <<v>> is the value v
None == <<>>
Some(v) == <<v>>

\* request.client.host
Clients == {"a", "b"}

\* values of config.WEBHOOK_SECRET_TOKEN ("" is the default: not configured)
Secrets == {"", "s"}

\* a TelegramMessage: chat.id, from.id, and the content fields.  A string
\* field is None or its text; a list or dict field is None or its length.
Msg(chat, from, text, caption, photo) ==
    [chat |-> chat, from_user |-> from, text |-> text, caption |-> caption,
     photo |-> photo, document |-> None, audio |-> None, video |-> None,
     entities |-> None]

\* a TelegramWebhook: update_id and the four message variants
Update(id, m, em, cp, ecp) ==
    [update_id |-> id, message |-> m, edited_message |-> em,
     channel_post |-> cp, edited_channel_post |-> ecp]

\* a raw request body: what its bytes are, and the update they encode
Body(kind, upd) == [kind |-> kind, upd |-> upd]

EmptyBody     == Body("empty", None)
NotJsonBody   == Body("notjson", None)
NotUtf8Body   == Body("notutf8", None)
BadSchemaBody == Body("badschema", None)
CallbackBody  == Body("update", Some(Update(1, None, None, None, None)))
TextBody      ==
    Body("update", Some(Update(2, Some(Msg(7, Some(7), Some("hello"), None, None)),
                               None, None, None)))

Bodies == {EmptyBody, NotJsonBody, NotUtf8Body, BadSchemaBody, CallbackBody, TextBody}

\* the contents of a message over which its classification is examined: a
\* text that is absent, empty or not; a photo list that is absent, empty or
\* not; a document, audio, video and entities that are absent or not empty
Messages ==
    [chat : {7}, from_user : {Some(7)}, text : {None, Some(""), Some("hello")},
     caption : {None}, photo : {None, Some(0), Some(1)},
     document : {None, Some(1)}, audio : {None, Some(1)},
     video : {None, Some(1)}, entities : {None, Some(1)}]

\* one message per variant of an update, each with its own chat, sender,
\* text and content
NewMessage        == Msg(1, Some(11), Some("new"), None, None)
EditedMessage     == Msg(2, Some(12), None, Some("edited caption"), Some(1))
ChannelPost       == [Msg(3, None, None, None, None) EXCEPT !.document = Some(1)]
EditedChannelPost == Msg(4, Some(14), Some("edited post"), Some("caption"), Some(1))

\* an optional variant: absent, or the message m
Opt(m) == {None, Some(m)}

\* the updates with one message of any content, and the updates with any
\* combination of the four variants
ContentUpdates == {Update(3, Some(m), None, None, None) : m \in Messages}
VariantUpdates ==
    {Update(4, m, em, cp, ecp) :
        m \in Opt(NewMessage), em \in Opt(EditedMessage),
        cp \in Opt(ChannelPost), ecp \in Opt(EditedChannelPost)}
UpdateBodies == {Body("update", Some(w)) : w \in ContentUpdates \cup VariantUpdates}

\* a header value: a string of hex digits (a digest), the empty string, or a
\* string with a character outside ASCII
HexDigest(key, body) == [kind |-> "hex", key |-> key, msg |-> body]
EmptyHeader    == [kind |-> "empty", key |-> "", msg |-> EmptyBody]
NonAsciiHeader == [kind |-> "nonascii", key |-> "", msg |-> EmptyBody]

\* values of request.headers.get('X-Telegram-Bot-Api-Secret-Token') sent with
\* a body: no header, an empty one, one outside ASCII, the digest of the body
\* under the key "s", the digest of another body under it, and the digest of
\* the body under another key
OtherBody(body) == IF body = TextBody THEN NotJsonBody ELSE TextBody
TokensFor(body) ==
    {None, Some(EmptyHeader), Some(NonAsciiHeader),
     Some(HexDigest("s", body)), Some(HexDigest("s", OtherBody(body))),
     Some(HexDigest("x", body))}
Tokens == UNION {TokensFor(body) : body \in Bodies}
\* the headers a request may carry, by its body: any of them, and none
AnyToken == [body \in Bodies |-> TokensFor(body)]
NoToken  == [body \in Bodies |-> {None}]

\* no header with any of the update bodies
NoUpdateToken == [body \in UpdateBodies |-> {None}]

\* exceptions: the class, and for an HTTPException its status_code and detail
Exc(type, status, detail) == [type |-> type, status |-> status, detail |-> detail]
NoExc == Exc("none", 0, "")
HTTPException(status, detail) == Exc("HTTPException", status, detail)
ValueError(detail) == Exc("ValueError", 0, detail)

-----------------------------------------------------------------------------
(* State *)

VARIABLES
    now,              \* datetime.utcnow().timestamp(), as is_allowed read it last
    secret,           \* config.WEBHOOK_SECRET_TOKEN
    requests,         \* rate_limiter.requests: ip_address -> [timestamps]
    processed_count,  \* webhook_processor.processed_count
    error_count,      \* webhook_processor.error_count
    processing_count, \* ai_agent.processing_count
    req,              \* the requests in flight: position and local variables
    resp,             \* the response the last step sent, with its request (NoResp: none)
    arrived,          \* history: number of requests received so far
    calls,            \* history: per client, the is_allowed calls <<time, result>>
    tally             \* history: number of requests ended, by outcome

vars == <<now, secret, requests, processed_count, error_count, processing_count,
          req, resp, arrived, calls, tally>>

Reqs == 1..MaxInFlight

-----------------------------------------------------------------------------
(* Truthiness, as Python's `if x:` and `x or y` see the optional fields *)

\* an Optional[str]: None and "" are false
TruthyStr(o) == o # None /\ o[1] # ""
\* an Optional[List] or Optional[Dict], given by its length: None and the
\* empty collection are false
TruthyColl(o) == o # None /\ o[1] > 0

-----------------------------------------------------------------------------
(* RateLimiter (webhook_handler.py) *)

\* the filter with >= for >: a timestamp exactly one window old is kept
InWindowClosed(timestamp, t) == timestamp >= t - RATE_LIMIT_WINDOW

\* the filter of the list comprehension: the timestamps that are kept
InWindow(timestamp, t) == timestamp > t - RATE_LIMIT_WINDOW

\* the map when nothing is purged: only the entry for ip_address is made
CleanNothing(reqs, ip_address, t) ==
    [c \in DOMAIN reqs \cup {ip_address} |->
        IF c \in DOMAIN reqs THEN reqs[c] ELSE <<>>]

\* "Clean old requests": the map after the purge, with an entry for ip_address
CleanOld(reqs, ip_address, t) ==
    LET Keep(timestamp) == InWindow(timestamp, t)
    IN  [c \in DOMAIN reqs \cup {ip_address} |->
            IF c # ip_address THEN reqs[c]
            ELSE IF ip_address \in DOMAIN reqs
                 THEN SelectSeq(reqs[ip_address], Keep)
                 ELSE <<>>]

\* the check with > for >=: one request more than the limit is admitted
LimitExceeded(window) == Len(window) > RATE_LIMIT

\* "Check rate limit": the purged window is full
LimitReached(window) == Len(window) >= RATE_LIMIT

\* the value is_allowed returns at time t
IsAllowedResult(reqs, ip_address, t) ==
    ~LimitReached(CleanOld(reqs, ip_address, t)[ip_address])

\* self.requests when an admitted check is recorded for every known client,
\* as if the clients shared one window
IsAllowedRequestsShared(reqs, ip_address, t) ==
    LET cleaned == CleanOld(reqs, ip_address, t)
    IN  IF LimitReached(cleaned[ip_address])
        THEN cleaned
        ELSE [c \in DOMAIN cleaned |-> Append(cleaned[c], t)]

\* self.requests when a refused check is recorded like an admitted one
IsAllowedRequestsRecordAll(reqs, ip_address, t) ==
    [CleanOld(reqs, ip_address, t) EXCEPT ![ip_address] = Append(@, t)]

\* self.requests when the append of an admitted check is lost while another
\* request of the same client is in flight
IsAllowedRequestsLostAppend(reqs, ip_address, t) ==
    LET cleaned == CleanOld(reqs, ip_address, t)
    IN  IF LimitReached(cleaned[ip_address])
           \/ \E r \in Reqs : req[r].pc # "idle" /\ req[r].client = ip_address
        THEN cleaned
        ELSE [cleaned EXCEPT ![ip_address] = Append(@, t)]

\* self.requests after is_allowed at time t
IsAllowedRequests(reqs, ip_address, t) ==
    LET cleaned == CleanOld(reqs, ip_address, t)
    IN  IF LimitReached(cleaned[ip_address])
        THEN cleaned
        ELSE [cleaned EXCEPT ![ip_address] = Append(@, t)]

-----------------------------------------------------------------------------
(* WebhookProcessor._validate_signature *)

\* the comparison when the digest does not cover the message
CompareDigestKeyOnly(a, b) ==
    IF a.kind = "nonascii" \/ b.kind = "nonascii"
    THEN [exc |-> Exc("TypeError", 0, "non-ASCII"), equal |-> FALSE]
    ELSE [exc |-> NoExc, equal |-> a.kind = b.kind /\ a.key = b.key]

\* hmac.compare_digest on two str: a TypeError when one of them has a
\* character outside ASCII, else their equality
CompareDigest(a, b) ==
    IF a.kind = "nonascii" \/ b.kind = "nonascii"
    THEN [exc |-> Exc("TypeError", 0, "non-ASCII"), equal |-> FALSE]
    ELSE [exc |-> NoExc, equal |-> a = b]

\* the body of the try block: the exception it raises, NoExc when none
SignatureCheck(sec, token, body) ==
    IF token = None \/ token[1].kind = "empty"
    THEN HTTPException(401, "Missing signature header")
    ELSE LET cmp == CompareDigest(token[1], HexDigest(sec, body))
         IN  IF cmp.exc # NoExc THEN cmp.exc
             ELSE IF ~cmp.equal THEN HTTPException(401, "Invalid signature")
             ELSE NoExc

\* the exception _validate_signature raises, NoExc when it returns
ValidateSignature(sec, token, body) ==
    LET e == SignatureCheck(sec, token, body)
    IN  IF e.type \in {"none", "HTTPException"} THEN e
        ELSE HTTPException(401, "Signature validation failed")

-----------------------------------------------------------------------------
(* WebhookProcessor._parse_webhook_data and the models *)

\* body.decode, json.loads and TelegramWebhook(**data): the exception raised
\* (NoExc when none) and the webhook built
ParseWebhookData(body) ==
    IF body.kind \in {"empty", "notjson"}
    THEN [exc |-> ValueError("Invalid JSON data"), webhook |-> None]
    ELSE IF body.kind # "update"
    THEN [exc |-> ValueError("Webhook data validation failed"), webhook |-> None]
    ELSE [exc |-> NoExc, webhook |-> body.upd]

\* a or b, for two optional messages (a message object is always true)
OrElse(a, b) == IF a # None THEN a ELSE b

\* the selection that prefers the edited message to the new one
get_message_edited_first(w) ==
    OrElse(w.edited_message,
           OrElse(w.message, OrElse(w.channel_post, w.edited_channel_post)))

\* TelegramWebhook.get_message
get_message(w) ==
    OrElse(w.message,
           OrElse(w.edited_message, OrElse(w.channel_post, w.edited_channel_post)))

\* TelegramWebhook.get_text
get_text(w) ==
    LET message == get_message(w)
    IN  IF message = None THEN None
        ELSE IF TruthyStr(message[1].text) THEN message[1].text
        ELSE message[1].caption

\* the classification that looks at the photo before the text
determine_message_type_photo_first(w) ==
    LET message == get_message(w)
    IN  IF message = None THEN "unknown"
        ELSE IF TruthyColl(message[1].photo) THEN "photo"
        ELSE IF TruthyStr(message[1].text) THEN "text"
        ELSE IF TruthyColl(message[1].document) THEN "document"
        ELSE IF TruthyColl(message[1].audio) THEN "audio"
        ELSE IF TruthyColl(message[1].video) THEN "video"
        ELSE IF TruthyColl(message[1].entities) THEN "entities"
        ELSE "other"

\* WebhookProcessor._determine_message_type
determine_message_type(w) ==
    LET message == get_message(w)
    IN  IF message = None THEN "unknown"
        ELSE IF TruthyStr(message[1].text) THEN "text"
        ELSE IF TruthyColl(message[1].photo) THEN "photo"
        ELSE IF TruthyColl(message[1].document) THEN "document"
        ELSE IF TruthyColl(message[1].audio) THEN "audio"
        ELSE IF TruthyColl(message[1].video) THEN "video"
        ELSE IF TruthyColl(message[1].entities) THEN "entities"
        ELSE "other"

\* the record with the sender in the place of the chat
NewProcessedWebhookChatFromUser(w) ==
    LET message == get_message(w)[1]
    IN  [update_id |-> w.update_id,
         chat_id |-> message.from_user,
         user_id |-> message.from_user,
         message_text |-> get_text(w),
         message_type |-> determine_message_type(w),
         sent_to_ai |-> FALSE,
         ai_response |-> None]

\* the ProcessedWebhook record built from a webhook that has a message
NewProcessedWebhook(w) ==
    LET message == get_message(w)[1]
    IN  [update_id |-> w.update_id,
         chat_id |-> Some(message.chat),
         user_id |-> message.from_user,
         message_text |-> get_text(w),
         message_type |-> determine_message_type(w),
         sent_to_ai |-> FALSE,
         ai_response |-> None]

-----------------------------------------------------------------------------
(* WebhookProcessor.process_telegram_webhook, up to the call of the responder *)

\* the signature step without its condition: the token is always validated
SignatureStepAlways(sec, token, body) == ValidateSignature(sec, token, body)

\* lines 35-36: "Validate webhook signature if secret token is configured"
SignatureStep(sec, token, body) ==
    IF sec # "" THEN ValidateSignature(sec, token, body) ELSE NoExc

\* the try block with the body parsed before the signature is validated
ProcessUntilDispatchParseFirst(sec, token, body) ==
    LET sig    == SignatureStep(sec, token, body)
        parsed == ParseWebhookData(body)
    IN  IF parsed.exc # NoExc
        THEN [exc |-> parsed.exc, step |-> "Parse", pw |-> None]
        ELSE IF sig # NoExc
        THEN [exc |-> sig, step |-> "AuthCheck", pw |-> None]
        ELSE IF get_message(parsed.webhook[1]) = None
        THEN [exc |-> ValueError("No message found in webhook"),
              step |-> "Parse", pw |-> None]
        ELSE [exc |-> NoExc, step |-> "Dispatch",
              pw |-> Some(NewProcessedWebhook(parsed.webhook[1]))]

\* the try block without the check of lines 43-44: the record is built from
\* no message, and reading message.chat raises
ProcessUntilDispatchUnchecked(sec, token, body) ==
    LET sig    == SignatureStep(sec, token, body)
        parsed == ParseWebhookData(body)
    IN  IF sig # NoExc
        THEN [exc |-> sig, step |-> "AuthCheck", pw |-> None]
        ELSE IF parsed.exc # NoExc
        THEN [exc |-> parsed.exc, step |-> "Parse", pw |-> None]
        ELSE IF get_message(parsed.webhook[1]) = None
        THEN [exc |-> Exc("AttributeError", 0, "'NoneType' object has no attribute 'chat'"),
              step |-> "Parse", pw |-> None]
        ELSE [exc |-> NoExc, step |-> "Dispatch",
              pw |-> Some(NewProcessedWebhook(parsed.webhook[1]))]

\* lines 34-64: the exception raised inside the try block (NoExc when the
\* responder is reached), the step of the pipeline it was raised at, and the
\* ProcessedWebhook built
ProcessUntilDispatch(sec, token, body) ==
    LET sig    == SignatureStep(sec, token, body)
        parsed == ParseWebhookData(body)
    IN  IF sig # NoExc
        THEN [exc |-> sig, step |-> "AuthCheck", pw |-> None]
        ELSE IF parsed.exc # NoExc
        THEN [exc |-> parsed.exc, step |-> "Parse", pw |-> None]
        ELSE IF get_message(parsed.webhook[1]) = None
        THEN [exc |-> ValueError("No message found in webhook"),
              step |-> "Parse", pw |-> None]
        ELSE [exc |-> NoExc, step |-> "Dispatch",
              pw |-> Some(NewProcessedWebhook(parsed.webhook[1]))]

\* the quotient without the test of its divisor
SuccessRateUnguarded(processed, errors) ==
    [num |-> processed, den |-> processed + errors]

\* get_statistics, lines 142-145: the success rate, as the fraction num/den
\* (the true division of two ints; the literal 0 is 0/1)
SuccessRate(processed, errors) ==
    IF processed + errors > 0
    THEN [num |-> processed, den |-> processed + errors]
    ELSE [num |-> 0, den |-> 1]

\* WebhookProcessor.get_statistics, called in the state at hand
get_statistics ==
    [processed_count |-> processed_count,
     error_count |-> error_count,
     success_rate |-> SuccessRate(processed_count, error_count)]

\* the handler answering 422 Unprocessable Entity
ProcessorExcept422(e) == HTTPException(422, e.detail)

\* lines 77-80: the handler of the try block turns any exception e into an
\* HTTPException with status 400 whose detail ends with str(e)
ProcessorExcept(e) == HTTPException(400, e.detail)

\* the count when the increment is lost while a request is at the responder
ErrorCountLostWhenBusy(count, e) ==
    IF e # NoExc /\ \A r \in Reqs : req[r].pc # "ai" THEN count + 1 ELSE count

\* the count when an HTTPException passes the handler uncounted
ErrorCountUnlessHTTP(count, e) ==
    IF e.type \notin {"none", "HTTPException"} THEN count + 1 ELSE count

\* lines 77-78: self.error_count after the try block raised the exception e
ErrorCountAfter(count, e) == IF e # NoExc THEN count + 1 ELSE count

\* the endpoint without its `except HTTPException: raise` clause
EndpointExceptAll(e) == HTTPException(500, e.detail)

\* main.py lines 128-132: an HTTPException passes, anything else becomes a 500
EndpointExcept(e) ==
    IF e.type = "HTTPException" THEN e ELSE HTTPException(500, e.detail)

\* AIAgent._generate_response
GenerateResponse(message_text) ==
    IF ~TruthyStr(message_text) THEN "no text"
    ELSE IF message_text[1] = "hello" THEN "greeting"
    ELSE "echo"

\* the responder reporting success from its except branch too
AIResponseAlwaysSuccess(pw, raised) ==
    [success |-> TRUE,
     response_text |-> IF raised THEN None
                       ELSE Some(GenerateResponse(pw.message_text))]

\* AIAgent.process_webhook after the sleep: the AIResponse, when the try block
\* raised an exception and when it did not
AIResponse(pw, raised) ==
    IF raised
    THEN [success |-> FALSE, response_text |-> None]
    ELSE [success |-> TRUE, response_text |-> Some(GenerateResponse(pw.message_text))]

-----------------------------------------------------------------------------------------------------------------------------------------------------
(* The requests *)

IdleReq ==
    [pc |-> "idle", client |-> "", body |-> EmptyBody, token |-> None, pw |-> None]

NoResp ==
    [client |-> "", body |-> EmptyBody, token |-> None,
     status |-> 0, error |-> "", step |-> "", raised |-> FALSE, pw |-> None]

NoTally == [ok |-> 0, early |-> 0, late |-> 0]

\* the tally with one more request ended at the given step of the pipeline
Count(t, step) ==
    IF step \in {"RateCheck", "RejectEmpty"} THEN [t EXCEPT !.early = @ + 1]
    ELSE IF step \in {"AuthCheck", "Parse"} THEN [t EXCEPT !.late = @ + 1]
    ELSE [t EXCEPT !.ok = @ + 1]

\* the response to a request that raised the HTTPException e at the given step
ErrorResponse(client, body, token, e, step) ==
    [client |-> client, body |-> body, token |-> token,
     status |-> e.status, error |-> e.detail, step |-> step, raised |-> FALSE,
     pw |-> None]

Init ==
    /\ now = 0
    /\ secret \in Secrets
    /\ requests = [c \in {} |-> <<>>]
    /\ processed_count = 0
    /\ error_count = 0
    /\ processing_count = 0
    /\ req = [r \in Reqs |-> IdleReq]
    /\ resp = NoResp
    /\ arrived = 0
    /\ calls = [c \in Clients |-> <<>>]
    /\ tally = NoTally

\* telegram_webhook, lines 99-108: a request arrives when the clock reads t,
\* the rate limiter is asked, and the request is answered 429 (whatever body
\* and header it carries, they are never read) or waits for its body
Arrive(r, client, t, B, K) ==
    /\ req[r].pc = "idle"
    /\ \A q \in Reqs : q < r => req[q].pc # "idle"
    /\ now' = t
    /\ arrived' = arrived + 1
    /\ requests' = IsAllowedRequests(requests, client, t)
    /\ calls' = [calls EXCEPT ![client] =
                    Append(@, <<t, IsAllowedResult(requests, client, t)>>)]
    /\ IF IsAllowedResult(requests, client, t)
       THEN /\ req' = [req EXCEPT ![r] = [IdleReq EXCEPT !.pc = "body", !.client = client]]
            /\ resp' = NoResp
            /\ UNCHANGED tally
       ELSE /\ \E body \in B : \E token \in K[body] :
                 resp' = ErrorResponse(client, body, token,
                             HTTPException(429, "Rate limit exceeded"), "RateCheck")
            /\ tally' = Count(tally, "RateCheck")
            /\ UNCHANGED req
    /\ UNCHANGED <<secret, processed_count, error_count, processing_count>>

\* the body is read and processed, and a request that fails gives back the
\* place it took in the window of its client
ReadBodyRefund(r, body, token) ==
    /\ req[r].pc = "body"
    /\ IF body.kind = "empty"
       THEN /\ resp' = ErrorResponse(req[r].client, body, token,
                           EndpointExcept(HTTPException(400, "Empty request body")),
                           "RejectEmpty")
            /\ req' = [req EXCEPT ![r] = IdleReq]
            /\ tally' = Count(tally, "RejectEmpty")
            /\ UNCHANGED <<error_count, processing_count>>
       ELSE LET p == ProcessUntilDispatch(secret, token, body)
            IN  IF p.exc # NoExc
                THEN /\ error_count' = ErrorCountAfter(error_count, p.exc)
                     /\ resp' = ErrorResponse(req[r].client, body, token,
                                    EndpointExcept(ProcessorExcept(p.exc)), p.step)
                     /\ req' = [req EXCEPT ![r] = IdleReq]
                     /\ tally' = Count(tally, p.step)
                     /\ UNCHANGED processing_count
                ELSE /\ processing_count' = processing_count + 1
                     /\ req' = [req EXCEPT ![r].pc = "ai", ![r].body = body,
                                           ![r].token = token, ![r].pw = p.pw]
                     /\ resp' = NoResp
                     /\ UNCHANGED <<error_count, tally>>
    /\ requests' = IF resp'.status \in {0, 200} THEN requests
                   ELSE [requests EXCEPT ![req[r].client] = SubSeq(@, 1, Len(@) - 1)]
    /\ UNCHANGED <<now, secret, processed_count, arrived, calls>>

\* the body is read and processed only while no request is at the responder,
\* as if the responder call held a lock of the processor
ReadBodyExclusive(r, body, token) ==
    /\ \A q \in Reqs : req[q].pc # "ai"
    /\ req[r].pc = "body"
    /\ IF body.kind = "empty"
       THEN /\ resp' = ErrorResponse(req[r].client, body, token,
                           EndpointExcept(HTTPException(400, "Empty request body")),
                           "RejectEmpty")
            /\ req' = [req EXCEPT ![r] = IdleReq]
            /\ tally' = Count(tally, "RejectEmpty")
            /\ UNCHANGED <<error_count, processing_count>>
       ELSE LET p == ProcessUntilDispatch(secret, token, body)
            IN  IF p.exc # NoExc
                THEN /\ error_count' = ErrorCountAfter(error_count, p.exc)
                     /\ resp' = ErrorResponse(req[r].client, body, token,
                                    EndpointExcept(ProcessorExcept(p.exc)), p.step)
                     /\ req' = [req EXCEPT ![r] = IdleReq]
                     /\ tally' = Count(tally, p.step)
                     /\ UNCHANGED processing_count
                ELSE /\ processing_count' = processing_count + 1
                     /\ req' = [req EXCEPT ![r].pc = "ai", ![r].body = body,
                                           ![r].token = token, ![r].pw = p.pw]
                     /\ resp' = NoResp
                     /\ UNCHANGED <<error_count, tally>>
    /\ UNCHANGED <<now, secret, requests, processed_count, arrived, calls>>

\* telegram_webhook, lines 108-113, and process_telegram_webhook up to the
\* sleep of the responder (ai_agent.py lines 27-34): the body has been read,
\* and the request is answered with an error or waits for the responder
ReadBody(r, body, token) ==
    /\ req[r].pc = "body"
    /\ IF body.kind = "empty"
       THEN /\ resp' = ErrorResponse(req[r].client, body, token,
                           EndpointExcept(HTTPException(400, "Empty request body")),
                           "RejectEmpty")
            /\ req' = [req EXCEPT ![r] = IdleReq]
            /\ tally' = Count(tally, "RejectEmpty")
            /\ UNCHANGED <<error_count, processing_count>>
       ELSE LET p == ProcessUntilDispatch(secret, token, body)
            IN  IF p.exc # NoExc
                THEN /\ error_count' = ErrorCountAfter(error_count, p.exc)
                     /\ resp' = ErrorResponse(req[r].client, body, token,
                                    EndpointExcept(ProcessorExcept(p.exc)), p.step)
                     /\ req' = [req EXCEPT ![r] = IdleReq]
                     /\ tally' = Count(tally, p.step)
                     /\ UNCHANGED processing_count
                ELSE /\ processing_count' = processing_count + 1
                     /\ req' = [req EXCEPT ![r].pc = "ai", ![r].body = body,
                                           ![r].token = token, ![r].pw = p.pw]
                     /\ resp' = NoResp
                     /\ UNCHANGED <<error_count, tally>>
    /\ UNCHANGED <<now, secret, requests, processed_count, arrived, calls>>

\* the responder returns, and its failure is counted as an error of the
\* request as well
AIReturnCountsFailure(r, raised) ==
    /\ req[r].pc = "ai"
    /\ LET ai_response == AIResponse(req[r].pw[1], raised)
       IN  resp' = [client |-> req[r].client, body |-> req[r].body,
                    token |-> req[r].token, status |-> 200, error |-> "",
                    step |-> "Record", raised |-> raised,
                    pw |-> Some([req[r].pw[1] EXCEPT
                                  !.sent_to_ai = ai_response.success,
                                  !.ai_response = ai_response.response_text])]
    /\ req' = [req EXCEPT ![r] = IdleReq]
    /\ processed_count' = processed_count + 1
    /\ tally' = Count(tally, "Record")
    /\ error_count' = IF raised THEN error_count + 1 ELSE error_count
    /\ UNCHANGED <<now, secret, requests, processing_count, arrived, calls>>

\* the responder returns (ai_agent.py lines 36-62, with or without an exception
\* in its try block), then process_telegram_webhook lines 68-75 and
\* telegram_webhook lines 115-126
AIReturn(r, raised) ==
    /\ req[r].pc = "ai"
    /\ LET ai_response == AIResponse(req[r].pw[1], raised)
       IN  resp' = [client |-> req[r].client, body |-> req[r].body,
                    token |-> req[r].token, status |-> 200, error |-> "",
                    step |-> "Record", raised |-> raised,
                    pw |-> Some([req[r].pw[1] EXCEPT
                                  !.sent_to_ai = ai_response.success,
                                  !.ai_response = ai_response.response_text])]
    /\ req' = [req EXCEPT ![r] = IdleReq]
    /\ processed_count' = processed_count + 1
    /\ tally' = Count(tally, "Record")
    /\ UNCHANGED <<now, secret, requests, error_count, processing_count,
                   arrived, calls>>

\* the steps of the service while fewer than N requests have arrived, for
\* requests from the clients C, with bodies from B and headers from K[body],
\* arriving at clock readings from T
NextOver(N, C, B, K, T) ==
    \/ \E r \in Reqs, client \in C, t \in T :
          arrived < N /\ t >= now /\ Arrive(r, client, t, B, K)
    \/ \E r \in Reqs, body \in B : \E token \in K[body] : ReadBody(r, body, token)
    \/ \E r \in Reqs, raised \in BOOLEAN : AIReturn(r, raised)

\* the service
Next == NextOver(MaxRequests, Clients, Bodies, AnyToken, 0..MaxTime)
Spec == Init /\ [][Next]_vars

\* the service under every request content, while the clock stands still
PipelineNext == NextOver(MaxRequests, Clients, Bodies, AnyToken, {0})
PipelineSpec == Init /\ [][PipelineNext]_vars

\* the service under requests of one content, no secret configured, while
\* the clock runs
LimiterInit == Init /\ secret = ""
LimiterNext == NextOver(MaxCalls, Clients, {TextBody}, NoToken, 0..MaxTime)
LimiterSpec == LimiterInit /\ [][LimiterNext]_vars

\* the service under updates of every content, no secret configured, while
\* the clock stands still
UpdateNext == NextOver(MaxUpdates, {"a"}, UpdateBodies, NoUpdateToken, {0})
UpdateSpec == LimiterInit /\ [][UpdateNext]_vars

\* the service under requests of one client that carry no header, with a
\* body that is empty, not JSON, an update without a message or a valid
\* update, with and without a secret configured, while the clock runs
FailureBodies == {EmptyBody, NotJsonBody, CallbackBody, TextBody}
FailureNext == NextOver(MaxRequests, {"a"}, FailureBodies, NoToken, 0..MaxTime)
FailureSpec == Init /\ [][FailureNext]_vars

-----------------------------------------------------------------------------
(* Statistics *)

\* C1 as claimed: processed_count is the number of requests that completed,
\* and error_count the number of requests that failed at RateCheck,
\* Reject-empty, AuthCheck or Parse.
C1_AllFailuresCounted ==
    /\ processed_count = tally.ok
    /\ error_count = tally.early + tally.late

\* C1 as amended: processed_count is the number of requests that completed,
\* and error_count the number of requests that failed at AuthCheck or Parse;
\* a request that failed at RateCheck or Reject-empty is in neither counter.
C1_ProcessorFailuresCounted ==
    /\ processed_count = tally.ok
    /\ error_count = tally.late

C1_Witness ==
    /\ tally.ok > 0 /\ tally.early > 0 /\ tally.late > 0
    /\ processed_count > 0 /\ error_count > 0

-----------------------------------------------------------------------------
(* Signature failures, as the caller sees them *)

\* the request of the response reached the signature check of a configured
\* secret and its token is missing or is not the digest of its body
BadTokenAnswered ==
    /\ resp.step \in {"AuthCheck", "Parse", "Record"}
    /\ secret # ""
    /\ resp.token # Some(HexDigest(secret, resp.body))

\* C2 as claimed: with a secret configured, a request whose token is missing
\* or is not the expected digest is answered with status 401.
C2_Unauthorized401 == BadTokenAnswered => resp.status = 401

-----------------------------------------------------------------------------
(* The rate limiter *)

CallTime(c, i) == calls[c][i][1]
CallAdmitted(c, i) == calls[c][i][2]
\* the calls of client c before its i-th call that were admitted
AdmittedBefore(c, i) == {j \in 1..(i - 1) : CallAdmitted(c, j)}

\* C3: of the calls of a client, the first RATE_LIMIT made within the window
\* of the first one are admitted; the next one less than a window after the
\* first is rejected; and once exactly RATE_LIMIT calls have been admitted, a
\* call more than a window after the first is admitted.
C3_WindowCorrectness ==
    \A c \in Clients : \A i \in 1..Len(calls[c]) :
        /\ (i <= RATE_LIMIT /\ CallTime(c, i) - CallTime(c, 1) <= RATE_LIMIT_WINDOW)
              => CallAdmitted(c, i)
        /\ (i = RATE_LIMIT + 1 /\ CallTime(c, i) - CallTime(c, 1) < RATE_LIMIT_WINDOW)
              => ~CallAdmitted(c, i)
        /\ (/\ AdmittedBefore(c, i) = 1..RATE_LIMIT
            /\ CallTime(c, i) - CallTime(c, 1) > RATE_LIMIT_WINDOW)
              => CallAdmitted(c, i)

C3_Witness ==
    \E c \in Clients :
        /\ Len(calls[c]) = RATE_LIMIT + 2
        /\ \A i \in 1..RATE_LIMIT : CallAdmitted(c, i)
        /\ ~CallAdmitted(c, RATE_LIMIT + 1)
        /\ CallTime(c, RATE_LIMIT + 1) - CallTime(c, 1) < RATE_LIMIT_WINDOW
        /\ CallAdmitted(c, RATE_LIMIT + 2)
        /\ CallTime(c, RATE_LIMIT + 2) - CallTime(c, 1) > RATE_LIMIT_WINDOW

\* C4 as claimed: a call is admitted iff the client's earlier admitted
\* timestamps t with t >= now - window number fewer than the limit.
C4_ClosedWindow ==
    \A c \in Clients : \A i \in 1..Len(calls[c]) :
        CallAdmitted(c, i) <=>
            Cardinality({j \in AdmittedBefore(c, i) :
                CallTime(c, j) >= CallTime(c, i) - RATE_LIMIT_WINDOW}) < RATE_LIMIT

\* C4 as amended: a call is admitted iff the client's earlier admitted
\* timestamps t with t > now - window number fewer than the limit; a timestamp
\* exactly one window old is not counted.
C4_OpenWindow ==
    \A c \in Clients : \A i \in 1..Len(calls[c]) :
        CallAdmitted(c, i) <=>
            Cardinality({j \in AdmittedBefore(c, i) :
                CallTime(c, j) > CallTime(c, i) - RATE_LIMIT_WINDOW}) < RATE_LIMIT

\* a call was rejected, and a later call was admitted at the instant the
\* oldest admitted timestamp was exactly one window old
C4_Witness ==
    \E c \in Clients : \E i, k \in 1..Len(calls[c]) :
        /\ k < i /\ ~CallAdmitted(c, k)
        /\ CallAdmitted(c, i)
        /\ Cardinality(AdmittedBefore(c, i)) >= RATE_LIMIT
        /\ \E j \in AdmittedBefore(c, i) :
              CallTime(c, j) = CallTime(c, i) - RATE_LIMIT_WINDOW

-----------------------------------------------------------------------------
(* The pipeline, request by request *)

\* C5: when the responder raises, the step that ends the request answers 200
\* with sent_to_ai false and no response text, adds one to processed_count
\* and leaves error_count alone.
C5_ResponderFailureIsData ==
    [][resp'.raised =>
          /\ resp'.status = 200
          /\ resp'.step = "Record"
          /\ resp'.pw # None
          /\ resp'.pw[1].sent_to_ai = FALSE
          /\ processed_count' = processed_count + 1
          /\ error_count' = error_count]_vars

C5_Witness ==
    /\ resp.raised
    /\ resp.status = 200
    /\ resp.pw[1].sent_to_ai = FALSE
    /\ processed_count > 0

EmptyBodyAnswer ==
    /\ resp.status = 400
    /\ resp.error = "Empty request body"
    /\ resp.step = "RejectEmpty"

\* C6 as claimed: every request with an empty body is answered 400, empty
\* request body, whatever its client, its token and the secret.
C6_EmptyAlways400 ==
    (resp # NoResp /\ resp.body.kind = "empty") => EmptyBodyAnswer

\* C6 as amended: every request with an empty body that the rate limiter
\* admits is answered 400, empty request body, whatever its client, its token
\* and the secret.
C6_AdmittedEmpty400 ==
    (resp.step \notin {"", "RateCheck"} /\ resp.body.kind = "empty")
        => EmptyBodyAnswer

\* an empty body answered 400 although a secret is configured and the token
\* is not its digest
C6_Witness ==
    /\ resp.body.kind = "empty"
    /\ EmptyBodyAnswer
    /\ secret # ""
    /\ resp.token = Some(HexDigest("x", resp.body))

\* the request of the response reached the signature check of a configured secret
SignatureChecked == resp.step \in {"AuthCheck", "Parse", "Record"} /\ secret # ""
GoodToken(token, body) == token = Some(HexDigest(secret, body))
\* no request with a token that is not the digest of its body is at the responder
OnlyVerifiedDispatched ==
    secret # "" =>
        \A r \in Reqs : req[r].pc = "ai" => GoodToken(req[r].token, req[r].body)

\* C7 as claimed: with a secret configured, verification succeeds iff the
\* token is the digest of the body under the secret; an absent token fails as
\* missing and every other token that is not the digest fails as invalid; and
\* no request with such a token reaches the responder.
C7_MissingOrInvalid ==
    /\ OnlyVerifiedDispatched
    /\ SignatureChecked =>
          /\ (resp.step # "AuthCheck") <=> GoodToken(resp.token, resp.body)
          /\ resp.token = None => resp.error = "Missing signature header"
          /\ (resp.token # None /\ ~GoodToken(resp.token, resp.body))
                => resp.error = "Invalid signature"

\* C7 as amended: with a secret configured, verification succeeds iff the
\* token is the digest of the body under the secret; an absent or empty token
\* fails as missing, a token with a character outside ASCII fails as
\* "signature validation failed", and every other token that is not the digest
\* fails as invalid; and no request with such a token reaches the responder.
C7_MissingInvalidOrFailed ==
    /\ OnlyVerifiedDispatched
    /\ SignatureChecked =>
          /\ (resp.step # "AuthCheck") <=> GoodToken(resp.token, resp.body)
          /\ resp.token \in {None, Some(EmptyHeader)}
                => resp.error = "Missing signature header"
          /\ resp.token = Some(NonAsciiHeader)
                => resp.error = "Signature validation failed"
          /\ (/\ resp.token \notin {None, Some(EmptyHeader), Some(NonAsciiHeader)}
              /\ ~GoodToken(resp.token, resp.body))
                => resp.error = "Invalid signature"

\* the digest of another body under the secret is refused as invalid
C7_Witness ==
    /\ SignatureChecked
    /\ resp.token = Some(HexDigest(secret, OtherBody(resp.body)))
    /\ resp.step = "AuthCheck"
    /\ resp.error = "Invalid signature"

\* C8: with no secret configured no request fails at the signature check,
\* and the answer to a request is the one its body would get with any token.
C8_SignatureSkipped ==
    secret = "" =>
        /\ resp.step # "AuthCheck"
        /\ resp.status # 401
        /\ resp.step \in {"Parse", "Record"} =>
              \A token \in Tokens :
                 LET p == ProcessUntilDispatch(secret, token, resp.body)
                 IN  /\ p.step # "AuthCheck"
                     /\ resp.step = "Parse" =>
                           /\ p.step = "Parse"
                           /\ EndpointExcept(ProcessorExcept(p.exc)).status = resp.status
                           /\ p.exc.detail = resp.error
                     /\ resp.step = "Record" =>
                           /\ p.exc = NoExc
                           /\ p.pw[1].message_type = resp.pw[1].message_type
                           /\ p.pw[1].chat_id = resp.pw[1].chat_id

\* a request with a header that no digest can equal completed
C8_Witness ==
    /\ secret = ""
    /\ resp.token = Some(NonAsciiHeader)
    /\ resp.status = 200

Malformed(body) == body.kind \in {"notjson", "notutf8", "badschema"}
\* the requests waiting for the responder
AtResponder == {r \in Reqs : req[r].pc = "ai"}

C10_InvalidJson422 ==
    (resp.step \notin {"", "RateCheck"} /\ resp.body.kind = "notjson")
        => resp.status = 422

-----------------------------------------------------------------------------
(* The record of a request *)

\* the update the body of the response's request encodes
RespUpdate == resp.body.upd[1]
\* the request of the response passed the rate limiter with a body that is an update
UpdateAnswered == resp.step \notin {"", "RateCheck"} /\ resp.body.kind = "update"

\* C11: with no secret configured, a request past the rate limiter whose
\* update has a message with a chat, a sender and a text, and whose responder
\* call returns normally, is answered 200 with the chat_id and the user_id of
\* that message, message_type "text" and sent_to_ai true.
C11_TextMessageSucceeds ==
    (/\ UpdateAnswered
     /\ secret = ""
     /\ RespUpdate.message # None
     /\ RespUpdate.message[1].from_user # None
     /\ TruthyStr(RespUpdate.message[1].text)
     /\ ~resp.raised)
        => /\ resp.status = 200
           /\ resp.step = "Record"
           /\ resp.pw # None
           /\ resp.pw[1].chat_id = Some(RespUpdate.message[1].chat)
           /\ resp.pw[1].user_id = RespUpdate.message[1].from_user
           /\ resp.pw[1].message_type = "text"
           /\ resp.pw[1].sent_to_ai = TRUE

\* a text message whose chat is not its sender, sent with an edited message
C11_Witness ==
    /\ UpdateAnswered
    /\ secret = ""
    /\ RespUpdate.message = Some(NewMessage)
    /\ RespUpdate.edited_message # None
    /\ resp.status = 200
    /\ resp.pw[1].chat_id = Some(1)
    /\ resp.pw[1].user_id = Some(11)
    /\ resp.pw[1].sent_to_ai = TRUE

-----------------------------------------------------------------------------
(* Normalisation of an update *)

\* the four variants of an update, in the order of their priority
Variants(w) == <<w.message, w.edited_message, w.channel_post, w.edited_channel_post>>
\* the positions of the variants that are present
PresentVariants(w) == {i \in 1..4 : Variants(w)[i] # None}
\* the first variant that is present
Primary(w) ==
    LET i == CHOOSE i \in PresentVariants(w) : \A j \in PresentVariants(w) : i <= j
    IN  Variants(w)[i][1]

\* the content types in the order of their priority, and whether a message
\* has the field of the i-th one (a field that is empty counts as absent)
Chain == <<"text", "photo", "document", "audio", "video", "entities">>
HasField(m, i) ==
    IF i = 1 THEN TruthyStr(m.text)
    ELSE TruthyColl(<<m.photo, m.document, m.audio, m.video, m.entities>>[i - 1])
FieldsOf(m) == {i \in 1..6 : HasField(m, i)}

\* the request of the response has an update with a message and got its record
Recorded ==
    /\ UpdateAnswered
    /\ PresentVariants(RespUpdate) # {}
    /\ resp.status = 200
    /\ resp.pw # None

\* C12: the message_type of a record is the first content type of the chain
\* text > photo > document > audio > video > entities whose field the primary
\* message has, and "other" when it has none of them; so a message with text
\* and photo is "text" and one with a photo and no text is "photo".
C12_PriorityChain ==
    Recorded =>
        LET m == Primary(RespUpdate)
            t == resp.pw[1].message_type
        IN  /\ t \in {Chain[i] : i \in 1..6} \cup {"other"}
            /\ \A i \in FieldsOf(m) :
                  (\A j \in FieldsOf(m) : i <= j) => t = Chain[i]
            /\ FieldsOf(m) = {} <=> t = "other"
            /\ (HasField(m, 1) /\ HasField(m, 2)) => t = "text"
            /\ FieldsOf(m) = {2} => t = "photo"

\* a message with a text, a photo and a video, classified as text
C12_Witness ==
    /\ Recorded
    /\ FieldsOf(Primary(RespUpdate)) = {1, 2, 5}
    /\ resp.pw[1].message_type = "text"

\* the content type of a message by the chain
TypeOf(m) ==
    IF FieldsOf(m) = {} THEN "other"
    ELSE Chain[CHOOSE i \in FieldsOf(m) : \A j \in FieldsOf(m) : i <= j]

\* C13: the record of an update is made from the first of message,
\* edited_message, channel_post, edited_channel_post that is present, whatever
\* other variants are present: an update with a new and an edited message
\* gives the record of the new one, and chat_id, user_id, message_text and
\* message_type all come from that one message.
C13_PrimaryMessage ==
    Recorded =>
        LET m == Primary(RespUpdate)
        IN  /\ RespUpdate.message # None => m = RespUpdate.message[1]
            /\ resp.pw[1].chat_id = Some(m.chat)
            /\ resp.pw[1].user_id = m.from_user
            /\ resp.pw[1].message_text = (IF TruthyStr(m.text) THEN m.text ELSE m.caption)
            /\ resp.pw[1].message_type = TypeOf(m)

\* an update with an edited message, a channel post and an edited channel
\* post, recorded from the edited message
C13_Witness ==
    /\ Recorded
    /\ PresentVariants(RespUpdate) = {2, 3, 4}
    /\ resp.pw[1].chat_id = Some(2)
    /\ resp.pw[1].user_id = Some(12)
    /\ resp.pw[1].message_text = Some("edited caption")
    /\ resp.pw[1].message_type = "photo"

\* the request of the response has an update with none of the four variants
NoVariantAnswered == UpdateAnswered /\ PresentVariants(RespUpdate) = {}

\* C14: an update with none of the four variants is answered 400, no message
\* found, with no record; no such update is ever at the responder, the
\* responder has been called for the dispatched requests only, and no record,
\* returned or in the making, has message_type "unknown".
C14_NoMessageContent ==
    /\ NoVariantAnswered =>
          /\ resp.status = 400
          /\ resp.step = "Parse"
          /\ resp.error = "No message found in webhook"
          /\ resp.pw = None
    /\ \A r \in AtResponder :
          /\ PresentVariants(req[r].body.upd[1]) # {}
          /\ req[r].pw[1].message_type # "unknown"
    /\ processing_count = processed_count + Cardinality(AtResponder)
    /\ resp.pw # None => resp.pw[1].message_type # "unknown"

\* an update without a message refused, the responder never called
C14_Witness ==
    /\ NoVariantAnswered
    /\ resp.status = 400
    /\ resp.error = "No message found in webhook"
    /\ processing_count = 0
    /\ error_count = 1

-----------------------------------------------------------------------------
(* The statistics snapshot *)

\* C15: the success rate reported in any state is a fraction with a divisor
\* that is not zero, lies between 0 and 1, equals processed_count /
\* (processed_count + error_count) when that sum is positive, and is 0 when
\* both counters are 0.
C15_SuccessRate ==
    LET stats == get_statistics
        rate  == stats.success_rate
        total == stats.processed_count + stats.error_count
    IN  /\ rate.den > 0
        /\ 0 <= rate.num /\ rate.num <= rate.den
        /\ total > 0 => rate.num * total = stats.processed_count * rate.den
        /\ total = 0 => rate.num = 0

\* a rate strictly between 0 and 1
C15_Witness ==
    /\ processed_count > 0 /\ error_count > 0
    /\ get_statistics.success_rate.num > 0
    /\ get_statistics.success_rate.num < get_statistics.success_rate.den

-----------------------------------------------------------------------------
(* The stages of a request *)

\* the stage at which an admitted request with this body and token ends when
\* the stages come in the order Reject-empty, AuthCheck, Parse, Dispatch, Record
StageOf(body, token) ==
    IF body.kind = "empty" THEN "RejectEmpty"
    ELSE IF secret # "" /\ ~GoodToken(token, body) THEN "AuthCheck"
    ELSE IF body.kind # "update" THEN "Parse"
    ELSE IF PresentVariants(body.upd[1]) = {} THEN "Parse"
    ELSE "Record"

\* the requests between their rate check and their answer
InFlight == {r \in Reqs : req[r].pc # "idle"}
\* the number of requests answered so far
Answered == tally.ok + tally.early + tally.late

\* C16: a step takes a request forward only: from its rate check to the
\* reading of its body, from there to the responder or to an error answer,
\* and from the responder to its record.  A request refused by the rate
\* limiter is answered at once; an admitted one that fails is answered at the
\* first of Reject-empty, AuthCheck and Parse that fails and is gone; the
\* responder is called once, for a request that passed all of these; and
\* every request is answered exactly once.
C16_StagesInOrder ==
    [][/\ \A r \in Reqs :
             /\ (req[r].pc = "idle" /\ req'[r].pc # "idle")
                   => /\ req'[r].pc = "body"
                      /\ arrived' = arrived + 1
                      /\ requests'[req'[r].client] # <<>>
             /\ (req[r].pc = "body" /\ req'[r].pc # "body")
                   => /\ req'[r].pc \in {"ai", "idle"}
                      /\ req'[r].pc = "ai"
                            => /\ StageOf(req'[r].body, req'[r].token) = "Record"
                               /\ processing_count' = processing_count + 1
                               /\ resp' = NoResp
                      /\ req'[r].pc = "idle"
                            => /\ resp'.step \in {"RejectEmpty", "AuthCheck", "Parse"}
                               /\ resp'.step = StageOf(resp'.body, resp'.token)
                               /\ resp'.status # 200
                               /\ processing_count' = processing_count
             /\ (req[r].pc = "ai" /\ req'[r].pc # "ai")
                   => /\ req'[r].pc = "idle"
                      /\ resp'.step = "Record"
                      /\ resp'.status = 200
                      /\ resp'.body = req[r].body
                      /\ processing_count' = processing_count
       /\ resp'.step = "RateCheck"
             => /\ arrived' = arrived + 1
                /\ req' = req
                /\ resp'.status = 429
                /\ processing_count' = processing_count
       /\ resp'.step \in {"RejectEmpty", "AuthCheck", "Parse"}
             => \E r \in Reqs : req[r].pc = "body" /\ req'[r].pc = "idle"
       /\ resp'.step = "Record"
             => \E r \in Reqs : req[r].pc = "ai" /\ req'[r].pc = "idle"
       /\ arrived' = tally'.ok + tally'.early + tally'.late
                        + Cardinality({r \in Reqs : req'[r].pc # "idle"})
      ]_vars

\* a request with a malformed body and a bad token ended at AuthCheck while
\* another request waits for the responder
C16_Witness ==
    /\ secret # ""
    /\ resp.step = "AuthCheck"
    /\ Malformed(resp.body)
    /\ AtResponder # {}
    /\ arrived = Answered + Cardinality(InFlight)

-----------------------------------------------------------------------------
(* Concurrent requests *)

\* C17: whatever requests are in flight, a step that ends a request in the
\* processor adds exactly one to the counter of its outcome and nothing to
\* the other, and no other step changes a counter; so once no request is in
\* flight each counter is the number of requests that incremented it.
C17_NoLostUpdate ==
    [][/\ processed_count' - processed_count = tally'.ok - tally.ok
       /\ error_count' - error_count = tally'.late - tally.late
       /\ (processed_count' + error_count') - (processed_count + error_count) \in {0, 1}
       /\ (\A r \in Reqs : req'[r].pc = "idle")
             => /\ processed_count' = tally'.ok
                /\ error_count' = tally'.late
                /\ processed_count' + error_count' = arrived' - tally'.early
      ]_vars

\* a request completed and another failed while a third is at the responder
C17_Witness ==
    /\ resp.step = "Record"
    /\ AtResponder # {}
    /\ processed_count = 1
    /\ error_count = 1

\* the calls of client c up to its i-th call that were admitted less than a
\* window before that call
AdmittedInWindow(c, i) ==
    {j \in 1..i : CallAdmitted(c, j) /\ CallTime(c, j) > CallTime(c, i) - RATE_LIMIT_WINDOW}

\* C18: whatever requests of a client are in flight, each is_allowed call
\* acts on the window the calls before it left: the window of a client holds
\* a timestamp for each of its admitted calls less than a window old at its
\* last call, and an admitted call is never one of more than RATE_LIMIT
\* admitted calls less than a window old.
C18_AtomicChecks ==
    \A c \in Clients :
        /\ \A i \in 1..Len(calls[c]) :
              CallAdmitted(c, i) => Cardinality(AdmittedInWindow(c, i)) <= RATE_LIMIT
        /\ calls[c] # <<>> =>
              /\ c \in DOMAIN requests
              /\ Len(requests[c]) = Cardinality(AdmittedInWindow(c, Len(calls[c])))
              /\ Len(requests[c]) <= RATE_LIMIT

\* a call refused while a request of the same client, admitted before it, is
\* at the responder
C18_Witness ==
    /\ resp.step = "RateCheck"
    /\ \E r \in Reqs : req[r].pc = "ai" /\ req[r].client = resp.client
    /\ Len(requests[resp.client]) = RATE_LIMIT
    /\ ~CallAdmitted(resp.client, Len(calls[resp.client]))

\* C19: while a request is at the responder, every other request can take
\* its next step: a new request of any client can be rate-checked, a request
\* whose body has arrived can be processed whatever its body, and any other
\* request at the responder can complete first; no step waits for the
\* responder call of another request.
C19_NoBlocking ==
    \A r \in AtResponder :
        /\ (\E q \in Reqs : req[q].pc = "idle")
              => \A client \in Clients :
                    \E q \in Reqs : ENABLED Arrive(q, client, now, Bodies, AnyToken)
        /\ \A q \in Reqs \ {r} :
              /\ req[q].pc = "body"
                    => \A body \in Bodies : ENABLED ReadBody(q, body, None)
              /\ req[q].pc = "ai"
                    => \A raised \in BOOLEAN : ENABLED AIReturn(q, raised)

\* a request of another client completed while a request is at the responder
C19_Witness ==
    /\ resp.step = "Record"
    /\ resp.status = 200
    /\ \E r \in AtResponder : req[r].client # resp.client

-----------------------------------------------------------------------------
(* The effect of a rate-limiter check *)

\* the window of client c as stored, empty when the client is unknown
WindowOf(reqs, c) == IF c \in DOMAIN reqs THEN reqs[c] ELSE <<>>
\* the timestamps of a window that have not expired at time t
Unexpired(window, t) ==
    LET Fresh(timestamp) == timestamp > t - RATE_LIMIT_WINDOW
    IN  SelectSeq(window, Fresh)

\* C20: a step that checks client c at time t leaves in the window of c the
\* unexpired timestamps of before and nothing else when the check is refused
\* (the window was full of them, so it is left as it was and the refusal does
\* not delay the next admission), and these followed by the one timestamp t
\* when it is admitted; a step without a check leaves every window as it is.
C20_RejectedRecordsNothing ==
    [][/\ \A c \in Clients :
             Len(calls'[c]) > Len(calls[c]) =>
                LET t      == now'
                    before == Unexpired(WindowOf(requests, c), t)
                    last   == calls'[c][Len(calls'[c])]
                IN  /\ last[1] = t
                    /\ ~last[2] => /\ requests'[c] = before
                                   /\ Len(before) >= RATE_LIMIT
                                   /\ before = WindowOf(requests, c)
                    /\ last[2] => requests'[c] = Append(before, t)
       /\ calls' = calls => requests' = requests
      ]_vars

\* a check refused after the last admitted one, the window left as it was
C20_Witness ==
    /\ resp.step = "RateCheck"
    /\ Len(requests[resp.client]) = RATE_LIMIT
    /\ \A i \in 1..Len(requests[resp.client]) : requests[resp.client][i] < now
    /\ ~CallAdmitted(resp.client, Len(calls[resp.client]))

-----------------------------------------------------------------------------
(* The window of a client *)

\* the time of the last check of client c
LastCheck(c) == CallTime(c, Len(calls[c]))

\* C21: after a check of client c at time t, under a clock that never goes
\* back, every timestamp stored for c lies in [t - RATE_LIMIT_WINDOW, t], and
\* the timestamps are stored in non-decreasing order.
C21_WindowBounds ==
    \A c \in Clients :
        calls[c] # <<>> =>
            /\ c \in DOMAIN requests
            /\ \A i \in 1..Len(requests[c]) :
                  /\ requests[c][i] >= LastCheck(c) - RATE_LIMIT_WINDOW
                  /\ requests[c][i] <= LastCheck(c)
            /\ \A i, j \in 1..Len(requests[c]) :
                  i < j => requests[c][i] <= requests[c][j]

\* a window of two different timestamps after an older one was purged
C21_Witness ==
    \E c \in Clients :
        /\ calls[c] # <<>>
        /\ Len(requests[c]) = 2
        /\ requests[c][1] < requests[c][2]
        /\ requests[c][2] = LastCheck(c)
        /\ Cardinality({i \in 1..Len(calls[c]) : CallAdmitted(c, i)}) > 2

\* the client checked by a step, given the history before and after it
Checked(before, after) == {c \in Clients : Len(after[c]) > Len(before[c])}

\* C22: the timestamp of an admitted request stays in the window of its
\* client when the request fails at a later stage (empty body, signature,
\* parse, no message), so a request of a client whose window holds RATE_LIMIT
\* unexpired timestamps is refused with 429 whatever its body and whatever
\* became of the requests admitted before it: a call that follows RATE_LIMIT
\* admitted calls less than a window old is never admitted.
C22_FailuresCountAgainstLimit ==
    [][/\ resp'.step \in {"RejectEmpty", "AuthCheck", "Parse"}
             => /\ requests' = requests
                /\ \E i \in 1..Len(requests'[resp'.client]) :
                      requests'[resp'.client][i] <= now'
       /\ \A c \in Checked(calls, calls') :
             Len(Unexpired(WindowOf(requests, c), now')) >= RATE_LIMIT
                => /\ resp'.step = "RateCheck"
                   /\ resp'.status = 429
                   /\ resp'.client = c
                   /\ requests'[c] = WindowOf(requests, c)
       /\ \A c \in Clients : \A i \in 1..Len(calls'[c]) :
             Cardinality({j \in 1..(i - 1) :
                             /\ calls'[c][j][2]
                             /\ calls'[c][j][1] > calls'[c][i][1] - RATE_LIMIT_WINDOW})
                    >= RATE_LIMIT
                => ~calls'[c][i][2]
      ]_vars

\* RATE_LIMIT requests of a client failed, none completed, and its next
\* request, a valid one sent later but less than a window after them, is
\* refused
C22_Witness ==
    /\ secret = ""
    /\ resp.step = "RateCheck"
    /\ now > requests[resp.client][1]
    /\ resp.body = TextBody
    /\ tally.ok = 0
    /\ tally.late >= 1
    /\ tally.early + tally.late = RATE_LIMIT + 1
    /\ Len(calls[resp.client]) = RATE_LIMIT + 1
    /\ \A r \in Reqs : req[r].pc = "idle"

\* C23: a step that checks client c leaves the window of every other client
\* as it is, stored or not, and with it the result that a check of that
\* client would have at any time; and whether a call of a client is admitted
\* is decided by the times of that client's own admitted calls and its own.
C23_ClientsIndependent ==
    [][/\ \A c \in Checked(calls, calls') : \A b \in Clients \ {c} :
             /\ calls'[b] = calls[b]
             /\ b \in DOMAIN requests' <=> b \in DOMAIN requests
             /\ WindowOf(requests', b) = WindowOf(requests, b)
             /\ \A t \in now'..MaxTime :
                   IsAllowedResult(requests', b, t) = IsAllowedResult(requests, b, t)
       /\ \A b \in Clients : \A i \in 1..Len(calls'[b]) :
             calls'[b][i][2] <=>
                Cardinality({j \in 1..(i - 1) :
                                /\ calls'[b][j][2]
                                /\ calls'[b][j][1] > calls'[b][i][1] - RATE_LIMIT_WINDOW})
                    < RATE_LIMIT
      ]_vars

\* a client is admitted at the instant at which another client, its window
\* full, was refused
C23_Witness ==
    \E c, b \in Clients :
        /\ c # b
        /\ calls[c] # <<>> /\ calls[b] # <<>>
        /\ Len(requests[c]) = RATE_LIMIT
        /\ ~CallAdmitted(c, Len(calls[c]))
        /\ CallAdmitted(b, Len(calls[b]))
        /\ LastCheck(b) = LastCheck(c)
        /\ requests[b] = <<LastCheck(b)>>

-----------------------------------------------------------------------------
(* The counters, request by request *)

\* the requests that a step ends
EndedBy(before, after) ==
    {r \in Reqs : before[r].pc # "idle" /\ after[r].pc = "idle"}

\* C24: a step changes a counter only when it ends a request, and then adds
\* one to one counter and nothing to the other: to processed_count when the
\* request is answered 200 with its record, to error_count when it is
\* answered with an error; as a request is ended by one step, it adds at most
\* one to the sum of the counters over its lifetime.
C24_OneCounterPerRequest ==
    [][/\ processed_count' # processed_count
             => /\ processed_count' = processed_count + 1
                /\ error_count' = error_count
                /\ resp'.status = 200
                /\ resp'.pw # None
                /\ Cardinality(EndedBy(req, req')) = 1
       /\ error_count' # error_count
             => /\ error_count' = error_count + 1
                /\ processed_count' = processed_count
                /\ resp'.status >= 400
                /\ resp'.pw = None
                /\ Cardinality(EndedBy(req, req')) = 1
       /\ EndedBy(req, req') = {}
             => /\ processed_count' = processed_count
                /\ error_count' = error_count
       /\ processed_count' + error_count'
             <= arrived' - Cardinality({r \in Reqs : req'[r].pc # "idle"})
      ]_vars

\* a request whose responder failed was counted as processed only, after a
\* request counted as an error and one counted in neither
C24_Witness ==
    /\ resp.raised
    /\ resp.status = 200
    /\ processed_count = 1
    /\ error_count = 1
    /\ tally.early = 1
    /\ arrived = 3

====
